---- MODULE Spec2Model ----
(***************************************************************************)
(* Slovak-law-mcp: the ingestion pipeline of scripts/ingest.ts and the     *)
(* history parser / version selector of scripts/lib/fetcher.ts.            *)
(*                                                                         *)
(* Dates are the fixed-width ISO strings of the portal.  A date string is  *)
(* modelled by a natural number: 0 is the empty string "", and d > 0 is    *)
(* the d-th day of the calendar, so that the order of the numbers is the   *)
(* order JavaScript's < gives the strings ("" is below every other         *)
(* string).  An object reference into an array is modelled by the          *)
(* position of the object in that array.                                   *)
(***************************************************************************)
EXTENDS Integers, Sequences, FiniteSets, TLC

\* ---------------------------------------------------------------- bounds
MaxDate == 3
MaxEntries == 2
MaxRows == 2
MaxHref == 2
NumLaws == 2
MaxProvisions == 1
MaxCalls == 2
MaxTokens == 4
MaxParagraphs == 3
MaxUnits == 2
MaxLines == 3
NumCallers == 3

\* ------------------------------------------------- constants of the source
MIN_DELAY_MS == 1200
MAX_RETRIES == 3
\* fetcher.ts:341, the lookback window of findChapterLabel, in characters
LOOKBACK == 15000
\* fetcher.ts:536, the least length of a provision's content
MIN_CONTENT_LENGTH == 5
MIN_DEFINITION_LENGTH == 12
MIN_TERM_LENGTH == 2
MAX_TERM_LENGTH == 140

VARIABLES
    pc,              \* position of the harness / of main()
    historyHtml,     \* the history page: its history-item rows, in order
    historyEntries,  \* ingestLaw's historyEntries (HistoryEntry[])
    asOfDate,        \* the reference date (--as-of)
    selection,       \* what selectHistoryEntry returned or that it threw
    thrown,          \* message of the error ingestLaw threw, "" if none
    args,            \* the CliArgs parseArgs() returned
    seeds,           \* data/seed: the seed file of every law
    targets,         \* main's targets
    lawIndex,        \* number of targets the for loop is done with
    ingestedCount, reusedCount, totalProvisions, totalDefinitions,
    failures, versionSummary,
    exitCode,        \* -1 while running, then the exit code of the process
    now,             \* Date.now(), in milliseconds
    lastRequestAt,   \* fetcher.ts: let lastRequestAt
    attempt,         \* fetchWithRateLimit's loop counter
    response,        \* status of the response fetch() resolved with, 0 if none
    requestAt,       \* when the latest fetch() was started, -1 if never
    prevRequestAt,   \* when the fetch() before that one was started, -1 if none
    callCount,       \* number of getPage calls made
    skipFetch,       \* --skip-fetch
    pageCache,       \* content of the cache file of the page, NoFile if absent
    pageResult,      \* what the latest getPage call returned or threw
    paragraphHtml,   \* buildProvisionContent: the tokens of the span, in order
    tokenIndex,      \* number of tokens tokenRegex.exec has yielded
    lines,           \* buildProvisionContent's lines
    markerBuffer,    \* buildProvisionContent's markerBuffer
    content,         \* what buildProvisionContent returned: its lines
    predpisHtml,     \* the root block: its elements, in order
    startIndex,      \* parseActFromVersionPage's loop counter i
    provisions,      \* parseActFromVersionPage's provisions
    reprocessed,     \* what buildProvisionContent returned for a body given back to it
    definitionLines, \* extractDefinitions: the lines of the provisions, in order
    lineIndex,       \* number of lines the loops of extractDefinitions are done with
    seen,            \* extractDefinitions' seen
    out,             \* extractDefinitions' out
    callerPc,        \* where each overlapping fetchWithRateLimit call is
    callerDue,       \* when the timer or the response a call awaits is due
    callerRequestAt, \* when each call's request was started, -1 before
    callerOverlaps   \* the calls that were waiting when each call was started

ingestVars == <<historyHtml, historyEntries, asOfDate, selection, thrown>>
runVars == <<args, seeds, targets, lawIndex, ingestedCount, reusedCount,
             totalProvisions, totalDefinitions, failures, versionSummary, exitCode>>
fetchVars ==
    <<now, lastRequestAt, attempt, response, requestAt, prevRequestAt, callCount,
      skipFetch, pageCache, pageResult>>
parserVars ==
    <<paragraphHtml, tokenIndex, lines, markerBuffer, content, predpisHtml,
      startIndex, provisions, reprocessed>>
definitionVars == <<definitionLines, lineIndex, seen, out>>
overlapVars == <<callerPc, callerDue, callerRequestAt, callerOverlaps>>
vars == <<pc, ingestVars, runVars, fetchVars, parserVars, definitionVars, overlapVars>>

\* ------------------------------------------------------------ ingest.ts
Laws == 1..NumLaws
TARGET_SLOVAK_LAWS == [k \in 1..NumLaws |-> k]

NoSeed ==
    [exists |-> FALSE, writer |-> "", status |-> "", provisions |-> 0,
     definitions |-> 0]
\* a seed file an earlier run left in data/seed
ExistingSeed ==
    [exists |-> TRUE, writer |-> "earlier run", status |-> "in_force",
     provisions |-> 1, definitions |-> 1]

\* the fetcher before its first request, for the runs that do not fetch
NoFile == "no file"
NoPageResult == [outcome |-> "none", body |-> "", error |-> ""]
FetchNotStarted ==
    /\ now = MIN_DELAY_MS /\ lastRequestAt = 0 /\ attempt = 0 /\ response = 0
    /\ requestAt = -1 /\ prevRequestAt = -1 /\ callCount = 0
    /\ skipFetch = FALSE /\ pageCache = NoFile /\ pageResult = NoPageResult

\* the parser before its first page, for the runs that do not parse one
NoContent == <<"not returned">>
ParserNotStarted ==
    /\ paragraphHtml = <<>> /\ tokenIndex = 0 /\ lines = <<>> /\ markerBuffer = <<>>
    /\ content = NoContent /\ predpisHtml = <<>> /\ startIndex = 0
    /\ provisions = <<>>
    /\ reprocessed = NoContent

\* extractDefinitions before its call, and no overlapping calls
DefinitionsNotStarted ==
    definitionLines = <<>> /\ lineIndex = 0 /\ seen = {} /\ out = <<>>
NoCaller ==
    callerPc = <<>> /\ callerDue = <<>> /\ callerRequestAt = <<>> /\ callerOverlaps = <<>>

\* the state of main() before parseArgs, for the runs of single functions
MainNotStarted ==
    /\ args = [allLaws |-> FALSE, metadataOnly |-> FALSE, keepExisting |-> FALSE,
               resume |-> FALSE, limit |-> -1]
    /\ seeds = [law \in Laws |-> NoSeed]
    /\ targets = <<>>
    /\ lawIndex = 0
    /\ ingestedCount = 0 /\ reusedCount = 0
    /\ totalProvisions = 0 /\ totalDefinitions = 0
    /\ failures = <<>> /\ versionSummary = <<>>
    /\ exitCode = -1

\* ------------------------------------------------- selectHistoryEntry
compareDate(a, b) == IF a = b THEN 0 ELSE IF a < b THEN -1 ELSE 1

\* the filter predicate of `effective`
isCandidate_keepsPromulgated(entry) == entry.inForceFrom # 0
isCandidate_keepsUndated(entry) == ~entry.isPromulgatedVersion
isCandidate(entry) == ~entry.isPromulgatedVersion /\ entry.inForceFrom # 0

\* Array.prototype.sort is stable: one step of a stable insertion sort puts
\* x behind every element that does not compare greater than x.
insertByInForceFrom_unstable(sorted, x, entries) ==
    LET n == Cardinality({k \in 1..Len(sorted) :
                 compareDate(entries[sorted[k]].inForceFrom, entries[x].inForceFrom) < 0})
    IN  SubSeq(sorted, 1, n) \o <<x>> \o SubSeq(sorted, n + 1, Len(sorted))
insertByInForceFrom(sorted, x, entries) ==
    LET n == Cardinality({k \in 1..Len(sorted) :
                 compareDate(entries[sorted[k]].inForceFrom, entries[x].inForceFrom) <= 0})
    IN  SubSeq(sorted, 1, n) \o <<x>> \o SubSeq(sorted, n + 1, Len(sorted))

RECURSIVE sortByInForceFrom(_, _)
sortByInForceFrom(refs, entries) ==
    IF refs = <<>> THEN <<>>
    ELSE insertByInForceFrom(sortByInForceFrom(SubSeq(refs, 1, Len(refs) - 1), entries),
                             refs[Len(refs)], entries)

\* entries.filter(...).sort(...): references to the candidates, sorted
effective(entries) ==
    sortByInForceFrom(
        SelectSeq([i \in 1..Len(entries) |-> i], LAMBDA i : isCandidate(entries[i])),
        entries)

\* the filter predicate of `active`
isActive_endExclusive(entry, date) ==
    LET started == compareDate(entry.inForceFrom, date) <= 0
        notEnded == entry.inForceTo = 0 \/ compareDate(entry.inForceTo, date) > 0
    IN  started /\ notEnded
isActive_openEndForgotten(entry, date) ==
    LET started == compareDate(entry.inForceFrom, date) <= 0
        notEnded == compareDate(entry.inForceTo, date) >= 0
    IN  started /\ notEnded
isActive(entry, date) ==
    LET started == compareDate(entry.inForceFrom, date) <= 0
        notEnded == entry.inForceTo = 0 \/ compareDate(entry.inForceTo, date) >= 0
    IN  started /\ notEnded

active(entries, date) ==
    SelectSeq(effective(entries), LAMBDA i : isActive(entries[i], date))

future_unlessSomeStarted(entries, date) ==
    IF \E k \in 1..Len(effective(entries)) :
            compareDate(entries[effective(entries)[k]].inForceFrom, date) <= 0
    THEN <<>>
    ELSE SelectSeq(effective(entries),
                   LAMBDA i : compareDate(entries[i].inForceFrom, date) > 0)
future(entries, date) ==
    SelectSeq(effective(entries), LAMBDA i : compareDate(entries[i].inForceFrom, date) > 0)

Threw(message) ==
    [outcome |-> "threw", error |-> message, selected |-> 0, status |-> "",
     firstInForceDate |-> 0]
Returned(sel, st, first) ==
    [outcome |-> "returned", error |-> "", selected |-> sel, status |-> st,
     firstInForceDate |-> first]

\* the three return statements
inForceResult(act, firstInForceDate) ==
    Returned(act[Len(act)], "in_force", firstInForceDate)

notYetInForceResult_historyWideDate(fut, entries, firstInForceDate) ==
    Returned(fut[1], "not_yet_in_force", firstInForceDate)
notYetInForceResult(fut, entries, firstInForceDate) ==
    Returned(fut[1], "not_yet_in_force", entries[fut[1]].inForceFrom)

repealedResult_firstCandidate(eff, firstInForceDate) ==
    Returned(eff[1], "repealed", firstInForceDate)
repealedResult(eff, firstInForceDate) ==
    Returned(eff[Len(eff)], "repealed", firstInForceDate)

selectHistoryEntry(entries, date) ==
    LET eff == effective(entries)
    IN  IF Len(eff) = 0
        THEN Threw("No effective (non-promulgated) versions found on history page")
        ELSE LET firstInForceDate == entries[eff[1]].inForceFrom
                 act == active(entries, date)
                 fut == future(entries, date)
             IN  IF Len(act) > 0 THEN inForceResult(act, firstInForceDate)
                 ELSE IF Len(fut) > 0
                      THEN notYetInForceResult(fut, entries, firstInForceDate)
                      ELSE repealedResult(eff, firstInForceDate)

NoSelection ==
    [outcome |-> "none", error |-> "", selected |-> 0, status |-> "",
     firstInForceDate |-> 0]

\* ------------------------------------- selectHistoryEntry on every input
EntryLists ==
    UNION {[1..n -> [href : {0}, inForceFrom : 0..MaxDate, inForceTo : 0..MaxDate,
                     isPromulgatedVersion : BOOLEAN]] : n \in 0..MaxEntries}

\* every row of a history page links its own version page
withOwnHref(list) == [i \in 1..Len(list) |-> [list[i] EXCEPT !.href = i]]

InitSelect ==
    /\ pc = "select"
    /\ historyHtml = <<>>
    /\ \E list \in EntryLists : historyEntries = withOwnHref(list)
    /\ asOfDate \in 1..MaxDate
    /\ selection = NoSelection
    /\ thrown = ""
    /\ MainNotStarted
    /\ FetchNotStarted
    /\ ParserNotStarted
    /\ DefinitionsNotStarted /\ NoCaller

\* ingest.ts:223, the call and what it throws
CallSelectHistoryEntry ==
    /\ pc = "select"
    /\ selection' = selectHistoryEntry(historyEntries, asOfDate)
    /\ thrown' = selection'.error
    /\ pc' = "selected"
    /\ UNCHANGED <<historyHtml, historyEntries, asOfDate, runVars>>
    /\ UNCHANGED fetchVars
    /\ UNCHANGED parserVars
    /\ UNCHANGED <<definitionVars, overlapVars>>

NextSelect == CallSelectHistoryEntry

SpecSelect == InitSelect /\ [][NextSelect]_vars

\* ------------------------------------------------ parseHistoryEntries
\* A history page is the sequence of its <tr class="effectivenessHistoryItem">
\* rows.  A row is its opening tag (the three data- attributes, whose values
\* carry surrounding white space when padded) followed by what stands
\* between it and the next row, of which only the <a href="..."> anchors
\* matter (links).  vyhlasene "x" is a tag whose attributes the pattern
\* data-vyhlasene="([01])"... does not match.
rawAttr(row, value) == [pad |-> row.padded, text |-> value]

\* String.prototype.trim
trim(raw) == raw.text

\* <tr class="effectivenessHistoryItem"[^>]*data-vyhlasene="([01])"[^>]*...>
tagMatches(row) == row.vyhlasene \in {"0", "1"}

\* [\s\S]*?<a href="([^"]+)": the row of the first anchor at or after row r
\* (the lazy scan runs over later rows), 0 when no anchor follows
firstLinkFrom(page, r) ==
    LET S == {j \in r..Len(page) : Len(page[j].links) > 0}
    IN  IF S = {} THEN 0 ELSE CHOOSE j \in S : \A k \in S : j <= k

\* matchAll: the matches from row r on; a match ends at its anchor and the
\* next one is looked for behind it
RECURSIVE matchAllFrom(_, _)
matchAllFrom(page, r) ==
    IF r > Len(page) THEN <<>>
    ELSE IF ~tagMatches(page[r]) THEN matchAllFrom(page, r + 1)
    ELSE LET j == firstLinkFrom(page, r)
         IN  IF j = 0 THEN <<>>
             ELSE <<[tag |-> r, link |-> j]>> \o matchAllFrom(page, j + 1)

\* rows.map(row => ({...}))
toHistoryEntry(page, m) ==
    [isPromulgatedVersion |-> page[m.tag].vyhlasene = "1",
     inForceFrom |-> trim(rawAttr(page[m.tag], page[m.tag].ucinnostod)),
     inForceTo |-> trim(rawAttr(page[m.tag], page[m.tag].ucinnostdo)),
     href |-> trim(rawAttr(page[m.link], page[m.link].links[1]))]

parseHistoryEntries(page) ==
    LET rows == matchAllFrom(page, 1)
    IN  [k \in 1..Len(rows) |-> toHistoryEntry(page, rows[k])]

\* ingest.ts:219-221, the message thrown on an empty list ("" = no throw)
NoHistoryEntries == "No history entries found in law history page"
checkHistoryEntries_acceptsEmpty(entries) == ""
checkHistoryEntries(entries) == IF Len(entries) = 0 THEN NoHistoryEntries ELSE ""

\* ---------------- ingestLaw's synchronous part (ingest.ts:218-223), stepwise
HistoryRows ==
    [vyhlasene : {"0", "1", "x"}, ucinnostod : {0, 1}, ucinnostdo : {0, 1},
     padded : BOOLEAN, links : {<<>>} \cup {<<h>> : h \in 1..MaxHref}]
HistoryPages == UNION {[1..n -> HistoryRows] : n \in 0..MaxRows}

InitParse ==
    /\ pc = "parse"
    /\ historyHtml \in HistoryPages
    /\ historyEntries = <<>>
    /\ asOfDate = 1
    /\ selection = NoSelection
    /\ thrown = ""
    /\ MainNotStarted
    /\ FetchNotStarted
    /\ ParserNotStarted
    /\ DefinitionsNotStarted /\ NoCaller

CallParseHistoryEntries ==
    /\ pc = "parse"
    /\ historyEntries' = parseHistoryEntries(historyHtml)
    /\ pc' = "parsed"
    /\ UNCHANGED <<historyHtml, asOfDate, selection, thrown, runVars>>
    /\ UNCHANGED fetchVars
    /\ UNCHANGED parserVars
    /\ UNCHANGED <<definitionVars, overlapVars>>

CheckHistoryEntries ==
    /\ pc = "parsed"
    /\ thrown' = checkHistoryEntries(historyEntries)
    /\ pc' = IF thrown' # "" THEN "threw" ELSE "select"
    /\ UNCHANGED <<historyHtml, historyEntries, asOfDate, selection, runVars>>
    /\ UNCHANGED fetchVars
    /\ UNCHANGED parserVars
    /\ UNCHANGED <<definitionVars, overlapVars>>

NextParse == CallParseHistoryEntries \/ CheckHistoryEntries \/ CallSelectHistoryEntry

SpecParse == InitParse /\ [][NextParse]_vars

\* ------------------------------------------------------ main(), ingest.ts
\* parseArgs: the flags of the command line; limit -1 is "no --limit"
CommandLines ==
    [allLaws : BOOLEAN, metadataOnly : BOOLEAN, keepExisting : BOOLEAN,
     resume : BOOLEAN, limit : {-1} \cup 0..(NumLaws - 1)]
parseArgs(raw) ==
    [raw EXCEPT !.keepExisting = raw.keepExisting \/ (raw.metadataOnly /\ raw.allLaws)]

\* targets.slice(0, limit)
slice(list, limit) ==
    IF limit = -1 \/ limit >= Len(list) THEN list ELSE SubSeq(list, 1, limit)

readExistingSeedSummary_unread(seed) ==
    [provisions |-> 0, definitions |-> 0]
readExistingSeedSummary(seed) ==
    [provisions |-> seed.provisions, definitions |-> seed.definitions]

buildMetadataOnlyAct(law) ==
    [status |-> "unknown", in_force_date |-> 0, provisions |-> 0, definitions |-> 0]

\* A version page, as far as main() looks at what is parsed from it: whether
\* the predpis root block is there, and how many provisions and definitions
\* parseActFromVersionPage finds in it (definitions are mined from
\* provisions; the pages of the model hold at most one per provision).
VersionPages ==
    {[hasRoot |-> FALSE, provisions |-> 0, definitions |-> 0]} \cup
    {page \in [hasRoot : {TRUE}, provisions : 0..MaxProvisions,
                definitions : 0..MaxProvisions] : page.definitions <= page.provisions}
NoPredpisRoot == "Unable to locate predpis root block in statute HTML"

parseActFromVersionPage_statusDropped(versionHtml, law, status, inForceDate) ==
    [status |-> "in_force", in_force_date |-> inForceDate,
     provisions |-> versionHtml.provisions, definitions |-> versionHtml.definitions]
parseActFromVersionPage(versionHtml, law, status, inForceDate) ==
    [status |-> status, in_force_date |-> inForceDate,
     provisions |-> versionHtml.provisions, definitions |-> versionHtml.definitions]

\* getPage: the error thrown for a response that is not 200
HttpStatuses == {200, 404, 503}
httpError(status, url) == "HTTP " \o ToString(status) \o " for " \o url

\* fetcher.ts:75
DocumentStatus == {"in_force", "amended", "repealed", "not_yet_in_force"}

\* the history pages the portal serves in a run: every row with its link
PortalRows ==
    [vyhlasene : {"0", "1"}, ucinnostod : 0..MaxDate, ucinnostdo : 0..MaxDate,
     padded : {FALSE}, links : {<<1>>}]
PortalPages == {<<>>} \cup {<<row>> : row \in PortalRows}

Init ==
    /\ pc = "main"
    /\ args \in {parseArgs(raw) : raw \in CommandLines}
    /\ asOfDate \in 1..MaxDate
    /\ seeds \in [Laws -> {NoSeed, ExistingSeed}]
    /\ historyHtml = <<>> /\ historyEntries = <<>>
    /\ selection = NoSelection /\ thrown = ""
    /\ targets = <<>> /\ lawIndex = 0
    /\ ingestedCount = 0 /\ reusedCount = 0
    /\ totalProvisions = 0 /\ totalDefinitions = 0
    /\ failures = <<>> /\ versionSummary = <<>>
    /\ exitCode = -1
    /\ FetchNotStarted
    /\ ParserNotStarted
    /\ DefinitionsNotStarted /\ NoCaller

clearSeedJsonFiles == [law \in Laws |-> NoSeed]

\* ingest.ts:292-307
MainStart ==
    /\ pc = "main"
    /\ seeds' = IF ~args.keepExisting /\ ~args.resume THEN clearSeedJsonFiles ELSE seeds
    /\ IF args.allLaws
       THEN pc' = "discover" /\ UNCHANGED targets
       ELSE pc' = "loop" /\ targets' = slice(TARGET_SLOVAK_LAWS, args.limit)
    /\ UNCHANGED <<ingestVars, args, lawIndex, ingestedCount, reusedCount,
                   totalProvisions, totalDefinitions, failures, versionSummary, exitCode>>
    /\ UNCHANGED fetchVars
    /\ UNCHANGED parserVars
    /\ UNCHANGED <<definitionVars, overlapVars>>

\* ingest.ts:300, discoverCatalogTargets returns the catalog's laws
DiscoverCatalogTargets ==
    /\ pc = "discover"
    /\ targets' = slice(TARGET_SLOVAK_LAWS, args.limit)
    /\ pc' = "loop"
    /\ UNCHANGED <<ingestVars, args, seeds, lawIndex, ingestedCount,
                   reusedCount, totalProvisions, totalDefinitions, failures,
                   versionSummary, exitCode>>
    /\ UNCHANGED fetchVars
    /\ UNCHANGED parserVars
    /\ UNCHANGED <<definitionVars, overlapVars>>

\* ingest.ts:300 and 402-405, a catalog page cannot be fetched: main rejects
DiscoverCatalogTargetsThrows ==
    /\ pc = "discover"
    /\ pc' = "exit"
    /\ exitCode' = 1
    /\ UNCHANGED <<ingestVars, args, seeds, targets, lawIndex, ingestedCount,
                   reusedCount, totalProvisions, totalDefinitions, failures,
                   versionSummary>>
    /\ UNCHANGED fetchVars
    /\ UNCHANGED parserVars
    /\ UNCHANGED <<definitionVars, overlapVars>>

CurrentLaw == targets[lawIndex + 1]
InLoop == pc = "loop" /\ lawIndex < Len(targets)
Reuses_onlyResume(law) == args.resume /\ seeds[law].exists
Reuses(law) == (args.keepExisting \/ args.resume) /\ seeds[law].exists

\* ingest.ts:319-327
ReuseExistingSeed ==
    /\ InLoop /\ Reuses(CurrentLaw)
    /\ LET summary == readExistingSeedSummary(seeds[CurrentLaw])
       IN  /\ reusedCount' = reusedCount + 1
           /\ totalProvisions' = totalProvisions + summary.provisions
           /\ totalDefinitions' = totalDefinitions + summary.definitions
    /\ versionSummary' = Append(versionSummary,
           [lawId |-> CurrentLaw, href |-> "existing", status |-> "existing"])
    /\ lawIndex' = lawIndex + 1
    /\ UNCHANGED <<pc, ingestVars, args, seeds, targets, ingestedCount, failures,
                   exitCode>>
    /\ UNCHANGED fetchVars
    /\ UNCHANGED parserVars
    /\ UNCHANGED <<definitionVars, overlapVars>>

\* ingestLaw has returned or thrown: its locals are gone
IngestLawLeft ==
    /\ historyHtml' = <<>> /\ historyEntries' = <<>>
    /\ selection' = NoSelection /\ thrown' = ""
    /\ UNCHANGED asOfDate

\* writeSeed and the bookkeeping of ingest.ts:347-351
Ingested(law, act, selectedHref, selectedStatus) ==
    /\ seeds' = [seeds EXCEPT ![law] =
           [exists |-> TRUE, writer |-> "this run", status |-> act.status,
            provisions |-> act.provisions, definitions |-> act.definitions]]
    /\ ingestedCount' = ingestedCount + 1
    /\ totalProvisions' = totalProvisions + act.provisions
    /\ totalDefinitions' = totalDefinitions + act.definitions
    /\ versionSummary' = Append(versionSummary,
           [lawId |-> law, href |-> selectedHref, status |-> selectedStatus])
    /\ lawIndex' = lawIndex + 1
    /\ pc' = "loop"
    /\ UNCHANGED <<args, targets, reusedCount, failures, exitCode>>

\* the catch of ingest.ts:354-358
Failed_endsRun(law, reason) ==
    /\ failures' = Append(failures, [lawId |-> law, reason |-> reason])
    /\ lawIndex' = Len(targets)
    /\ pc' = "loop"
    /\ UNCHANGED <<args, seeds, targets, ingestedCount, reusedCount, totalProvisions,
                   totalDefinitions, versionSummary, exitCode>>
Failed(law, reason) ==
    /\ failures' = Append(failures, [lawId |-> law, reason |-> reason])
    /\ lawIndex' = lawIndex + 1
    /\ pc' = "loop"
    /\ UNCHANGED <<args, seeds, targets, ingestedCount, reusedCount, totalProvisions,
                   totalDefinitions, versionSummary, exitCode>>

\* ingest.ts:336-339 and 347-353
IngestMetadataOnly ==
    /\ InLoop /\ ~Reuses(CurrentLaw) /\ args.metadataOnly
    /\ Ingested(CurrentLaw, buildMetadataOnlyAct(CurrentLaw), "catalog_only", "unknown")
    /\ UNCHANGED ingestVars
    /\ UNCHANGED fetchVars
    /\ UNCHANGED parserVars
    /\ UNCHANGED <<definitionVars, overlapVars>>

\* ingest.ts:341 and 213-217: ingestLaw asks getPage for the history page
StartIngestLaw ==
    /\ InLoop /\ ~Reuses(CurrentLaw) /\ ~args.metadataOnly
    /\ pc' = "history"
    /\ UNCHANGED <<ingestVars, runVars>>
    /\ UNCHANGED fetchVars
    /\ UNCHANGED parserVars
    /\ UNCHANGED <<definitionVars, overlapVars>>

\* what ingestLaw throws at ingest.ts:217-223, "" if nothing
historyError(status, entries, sel) ==
    IF status # 200 THEN httpError(status, "history")
    ELSE IF checkHistoryEntries(entries) # "" THEN checkHistoryEntries(entries)
    ELSE sel.error

\* ingest.ts:176-183 and 217-226: the request for the history page ends with
\* a response; getPage returns its body or throws, the history is parsed, a
\* version is selected and its page is asked for
HistoryPageFetched ==
    /\ pc = "history"
    /\ \E status \in HttpStatuses, body \in PortalPages :
          LET entries == parseHistoryEntries(body)
              sel == selectHistoryEntry(entries, asOfDate)
              error == historyError(status, entries, sel)
          IN  IF error # ""
              THEN Failed(CurrentLaw, error) /\ IngestLawLeft
              ELSE /\ historyHtml' = body
                   /\ historyEntries' = entries
                   /\ selection' = sel
                   /\ pc' = "version"
                   /\ UNCHANGED <<asOfDate, thrown, runVars>>
    /\ UNCHANGED fetchVars
    /\ UNCHANGED parserVars
    /\ UNCHANGED <<definitionVars, overlapVars>>

\* what ingestLaw throws at ingest.ts:226-228, "" if nothing
versionError(status, versionHtml) ==
    IF status # 200 THEN httpError(status, "version")
    ELSE IF ~versionHtml.hasRoot THEN NoPredpisRoot ELSE ""

\* ingest.ts:176-183, 226-229 and 342-353: the request for the version page
\* ends with a response; getPage returns its body or throws, the page is
\* parsed and the seed is written
VersionPageFetched ==
    /\ pc = "version"
    /\ IngestLawLeft
    /\ \E status \in HttpStatuses, versionHtml \in VersionPages :
          IF versionError(status, versionHtml) # ""
          THEN Failed(CurrentLaw, versionError(status, versionHtml))
          ELSE Ingested(CurrentLaw,
                   parseActFromVersionPage(versionHtml, CurrentLaw, selection.status,
                                           selection.firstInForceDate),
                   ToString(historyEntries[selection.selected].href),
                   selection.status)
    /\ UNCHANGED fetchVars
    /\ UNCHANGED parserVars
    /\ UNCHANGED <<definitionVars, overlapVars>>

\* ingest.ts:361-405
Finish_failsOnAnyFailure ==
    /\ pc = "loop" /\ lawIndex = Len(targets)
    /\ exitCode' = IF failures # <<>> THEN 1 ELSE 0
    /\ pc' = "exit"
    /\ UNCHANGED <<ingestVars, args, seeds, targets, lawIndex, ingestedCount,
                   reusedCount, totalProvisions, totalDefinitions, failures,
                   versionSummary>>
    /\ UNCHANGED fetchVars
    /\ UNCHANGED parserVars
    /\ UNCHANGED <<definitionVars, overlapVars>>
Finish ==
    /\ pc = "loop" /\ lawIndex = Len(targets)
    /\ exitCode' = IF ingestedCount = 0 /\ reusedCount = 0 THEN 1 ELSE 0
    /\ pc' = "exit"
    /\ UNCHANGED <<ingestVars, args, seeds, targets, lawIndex, ingestedCount,
                   reusedCount, totalProvisions, totalDefinitions, failures,
                   versionSummary>>
    /\ UNCHANGED fetchVars
    /\ UNCHANGED parserVars
    /\ UNCHANGED <<definitionVars, overlapVars>>

Next ==
    \/ MainStart
    \/ DiscoverCatalogTargets
    \/ DiscoverCatalogTargetsThrows
    \/ ReuseExistingSeed
    \/ IngestMetadataOnly
    \/ StartIngestLaw
    \/ HistoryPageFetched
    \/ VersionPageFetched
    \/ Finish

Spec == Init /\ [][Next]_vars

\* ------------------------------------------- fetchWithRateLimit and getPage
\* Time is in milliseconds.  sleep(ms) resolves ms later or a little more;
\* fetch() resolves with a response after the server's latency.
Overshoots == {0, 400}
Latencies == {400, 1600}
\* time main() spends between two getPage calls
Pauses == {0, 800}
ServerStatuses == {200, 404, 429, 503}
OkBody == "statute page"
ErrorBody == "error page"
bodyOf(status) == IF status = 200 THEN OkBody ELSE ErrorBody

RECURSIVE pow2(_)
pow2(n) == IF n = 0 THEN 1 ELSE 2 * pow2(n - 1)

\* fetcher.ts:45
retryable(status) == status = 429 \/ status >= 500
\* fetcher.ts:46
backoffMs_flat(k) == 2000
backoffMs(k) == pow2(k + 1) * 1000

PageReturned(body) == [outcome |-> "returned", body |-> body, error |-> ""]
PageThrew(message) == [outcome |-> "threw", body |-> "", error |-> message]

\* ingest.ts:176-183: getPage once fetchWithRateLimit has returned
getPageAfterFetch_cachesFirst(status, body, cache) ==
    [cache |-> body,
     result |-> IF status # 200 THEN PageThrew(httpError(status, "page"))
                ELSE PageReturned(body)]
getPageAfterFetch(status, body, cache) ==
    IF status # 200
    THEN [cache |-> cache, result |-> PageThrew(httpError(status, "page"))]
    ELSE [cache |-> body, result |-> PageReturned(body)]

InitFetch ==
    /\ pc = "caller"
    /\ now = MIN_DELAY_MS /\ lastRequestAt = 0 /\ attempt = 0 /\ response = 0
    /\ requestAt = -1 /\ prevRequestAt = -1 /\ callCount = 0
    /\ skipFetch \in BOOLEAN
    /\ pageCache \in {NoFile, OkBody}
    /\ pageResult = NoPageResult
    /\ historyHtml = <<>> /\ historyEntries = <<>> /\ asOfDate = 1
    /\ selection = NoSelection /\ thrown = ""
    /\ MainNotStarted
    /\ ParserNotStarted
    /\ DefinitionsNotStarted /\ NoCaller

\* ingest.ts:171-176: getPage is called; with --skip-fetch and a cached page
\* it returns the cached page, else it calls fetchWithRateLimit
CallGetPage ==
    /\ pc = "caller" /\ callCount < MaxCalls
    /\ callCount' = callCount + 1
    /\ \E pause \in Pauses : now' = now + pause
    /\ IF skipFetch /\ pageCache # NoFile
       THEN pageResult' = PageReturned(pageCache) /\ pc' = "caller"
       ELSE pageResult' = NoPageResult /\ pc' = "applyRateLimit"
    /\ UNCHANGED <<lastRequestAt, attempt, response, requestAt, prevRequestAt,
                   skipFetch, pageCache, ingestVars, runVars>>
    /\ UNCHANGED parserVars
    /\ UNCHANGED <<definitionVars, overlapVars>>

\* fetcher.ts:18-24 and 36
applyRateLimit ==
    /\ pc = "applyRateLimit"
    /\ LET elapsed == now - lastRequestAt
       IN  IF elapsed < MIN_DELAY_MS
           THEN \E late \in Overshoots : now' = now + (MIN_DELAY_MS - elapsed) + late
           ELSE now' = now
    /\ lastRequestAt' = now'
    /\ attempt' = 0
    /\ pc' = "fetch"
    /\ UNCHANGED <<response, requestAt, prevRequestAt, callCount, skipFetch,
                   pageCache, pageResult, ingestVars, runVars>>
    /\ UNCHANGED parserVars
    /\ UNCHANGED <<definitionVars, overlapVars>>

\* fetcher.ts:37-43: the request is sent and a response comes back
Fetch ==
    /\ pc = "fetch"
    /\ prevRequestAt' = requestAt
    /\ requestAt' = now
    /\ \E latency \in Latencies : now' = now + latency
    /\ response' \in ServerStatuses
    /\ pc' = "responded"
    /\ UNCHANGED <<lastRequestAt, attempt, callCount, skipFetch, pageCache,
                   pageResult, ingestVars, runVars>>
    /\ UNCHANGED parserVars
    /\ UNCHANGED <<definitionVars, overlapVars>>

\* fetcher.ts:37: the request is sent and fetch() rejects (no connection);
\* fetchWithRateLimit and getPage reject with it
FetchRejects ==
    /\ pc = "fetch"
    /\ prevRequestAt' = requestAt
    /\ requestAt' = now
    /\ \E latency \in Latencies : now' = now + latency
    /\ pageResult' = PageThrew("fetch failed")
    /\ pc' = "caller"
    /\ UNCHANGED <<lastRequestAt, attempt, response, callCount, skipFetch,
                   pageCache, ingestVars, runVars>>
    /\ UNCHANGED parserVars
    /\ UNCHANGED <<definitionVars, overlapVars>>

\* fetcher.ts:45-49
Backoff ==
    /\ pc = "responded"
    /\ retryable(response) /\ attempt < MAX_RETRIES
    /\ \E late \in Overshoots : now' = now + backoffMs(attempt) + late
    /\ attempt' = attempt + 1
    /\ pc' = "fetch"
    /\ UNCHANGED <<lastRequestAt, response, requestAt, prevRequestAt, callCount,
                   skipFetch, pageCache, pageResult, ingestVars, runVars>>
    /\ UNCHANGED parserVars
    /\ UNCHANGED <<definitionVars, overlapVars>>

\* fetcher.ts:51-57 and ingest.ts:176-183: fetchWithRateLimit returns the
\* response and getPage throws on it or caches and returns its body
ReturnResponse ==
    /\ pc = "responded"
    /\ ~(retryable(response) /\ attempt < MAX_RETRIES)
    /\ LET got == getPageAfterFetch(response, bodyOf(response), pageCache)
       IN  pageCache' = got.cache /\ pageResult' = got.result
    /\ pc' = "caller"
    /\ UNCHANGED <<now, lastRequestAt, attempt, response, requestAt, prevRequestAt,
                   callCount, skipFetch, ingestVars, runVars>>
    /\ UNCHANGED parserVars
    /\ UNCHANGED <<definitionVars, overlapVars>>

NextFetch ==
    \/ CallGetPage
    \/ applyRateLimit
    \/ Fetch
    \/ FetchRejects
    \/ Backoff
    \/ ReturnResponse

SpecFetch == InitFetch /\ [][NextFetch]_vars
\* fetch() settles and timers fire
SpecFetchFair == SpecFetch /\ WF_vars(NextFetch)

\* --------------------------------------------------- buildProvisionContent
\* A text is the sequence of the words whitespace separates in it, so that
\* a + " " + b is a \o b.  In raw markup a word can be "" (a second blank
\* in a row) or a footnote mark.
\* The span of a provision, its label and heading blocks removed, is the
\* sequence of its pieces: the div blocks tokenRegex matches, each with its
\* kind and raw inner markup, and markup of no token kind ("other").
Sup == "<sup>1</sup>"
MarkerKinds == {"odsekOznacenie", "pismenoOznacenie", "bodOznacenie"}
TokenKinds == MarkerKinds \cup {"text"}

\* fetcher.ts:260-278: footnote marks are cut, runs of blanks collapse
normalizeWhitespace(text) == SelectSeq(text, LAMBDA w : w # "")
normalizeLine(text) == normalizeWhitespace(text)
cleanTextFragment(raw) == normalizeLine(SelectSeq(raw, LAMBDA w : w # Sup))

RECURSIVE joinTexts(_)
\* texts.join(' ')
joinTexts(texts) ==
    IF texts = <<>> THEN <<>> ELSE texts[1] \o joinTexts(Tail(texts))

\* fetcher.ts:361 and 366: the matches of tokenRegex, in order
tokensOf(span) == SelectSeq(span, LAMBDA piece : piece.kind \in TokenKinds)

\* fetcher.ts:367-378: one turn of the while loop
readToken_emptyTextClears(scan, token) ==
    LET value == cleanTextFragment(token.raw)
    IN  IF token.kind = "text"
        THEN [lines |-> IF value = <<>> THEN scan.lines
                        ELSE Append(scan.lines, joinTexts(scan.markerBuffer) \o value),
              markerBuffer |-> <<>>]
        ELSE IF value = <<>> THEN scan
        ELSE [lines |-> scan.lines, markerBuffer |-> Append(scan.markerBuffer, value)]
readToken(scan, token) ==
    LET value == cleanTextFragment(token.raw)
    IN  IF value = <<>> THEN scan
        ELSE IF token.kind = "text"
        THEN LET prefix == IF Len(scan.markerBuffer) > 0
                           THEN joinTexts(scan.markerBuffer)
                           ELSE <<>>
             IN  [lines |-> Append(scan.lines, normalizeLine(prefix \o value)),
                  markerBuffer |-> <<>>]
        ELSE [lines |-> scan.lines, markerBuffer |-> Append(scan.markerBuffer, value)]

RECURSIVE dedupeFrom_wholeDocument(_, _, _)
dedupeFrom_wholeDocument(all, i, deduped) ==
    IF i > Len(all) THEN deduped
    ELSE dedupeFrom_wholeDocument(all, i + 1,
             IF \E k \in 1..Len(deduped) : deduped[k] = all[i]
             THEN deduped ELSE Append(deduped, all[i]))
RECURSIVE dedupeFrom(_, _, _)
\* fetcher.ts:385-390
dedupeFrom(all, i, deduped) ==
    IF i > Len(all) THEN deduped
    ELSE dedupeFrom(all, i + 1,
             IF deduped = <<>> \/ deduped[Len(deduped)] # all[i]
             THEN Append(deduped, all[i]) ELSE deduped)

\* fetcher.ts:381-383: the whole span as one cleaned text; the returned
\* string is modelled by its lines, "" by no line
wholeSpan_nothing(span) == <<>>
wholeSpan(span) ==
    LET text == cleanTextFragment(joinTexts([i \in 1..Len(span) |-> span[i].raw]))
    IN  IF text = <<>> THEN <<>> ELSE <<text>>

\* fetcher.ts:381-392
finishContent(span, scan) ==
    IF Len(scan.lines) = 0 THEN wholeSpan(span) ELSE dedupeFrom(scan.lines, 1, <<>>)

RECURSIVE scanFrom(_, _, _)
scanFrom(tokens, i, scan) ==
    IF i > Len(tokens) THEN scan ELSE scanFrom(tokens, i + 1, readToken(scan, tokens[i]))

\* fetcher.ts:356-393
buildProvisionContent(span) ==
    finishContent(span, scanFrom(tokensOf(span), 1, [lines |-> <<>>, markerBuffer |-> <<>>]))

Pieces ==
    {[kind |-> "odsekOznacenie", raw |-> r] : r \in {<<>>, <<"(1)">>}} \cup
    {[kind |-> "pismenoOznacenie", raw |-> r] : r \in {<<>>, <<"a)">>}} \cup
    {[kind |-> "bodOznacenie", raw |-> r] : r \in {<<"", Sup>>, <<"1.">>}} \cup
    {[kind |-> "text", raw |-> r] : r \in {<<Sup>>, <<"A">>, <<"A", "", Sup>>, <<"B">>}} \cup
    {[kind |-> "other", raw |-> <<"C">>]}
SeqsUpTo(S, n) == UNION {[1..k -> S] : k \in 0..n}

InitContent ==
    /\ pc = "scan"
    /\ paragraphHtml \in SeqsUpTo(Pieces, MaxTokens)
    /\ tokenIndex = 0 /\ lines = <<>> /\ markerBuffer = <<>>
    /\ content = NoContent
    /\ predpisHtml = <<>> /\ startIndex = 0 /\ provisions = <<>>
    /\ historyHtml = <<>> /\ historyEntries = <<>> /\ asOfDate = 1
    /\ selection = NoSelection /\ thrown = ""
    /\ MainNotStarted /\ FetchNotStarted
    /\ DefinitionsNotStarted /\ NoCaller
    /\ reprocessed = NoContent

\* fetcher.ts:366-379: tokenRegex.exec yields the next token
ReadToken ==
    /\ pc = "scan" /\ tokenIndex < Len(tokensOf(paragraphHtml))
    /\ LET scan == readToken([lines |-> lines, markerBuffer |-> markerBuffer],
                             tokensOf(paragraphHtml)[tokenIndex + 1])
       IN  lines' = scan.lines /\ markerBuffer' = scan.markerBuffer
    /\ tokenIndex' = tokenIndex + 1
    /\ UNCHANGED <<pc, paragraphHtml, content, predpisHtml, startIndex, provisions,
                   ingestVars, runVars, fetchVars>>
    /\ UNCHANGED <<definitionVars, overlapVars>>
    /\ UNCHANGED reprocessed

\* fetcher.ts:366 and 381-392: tokenRegex.exec yields null
FinishContent ==
    /\ pc = "scan" /\ tokenIndex = Len(tokensOf(paragraphHtml))
    /\ content' = finishContent(paragraphHtml, [lines |-> lines, markerBuffer |-> markerBuffer])
    /\ pc' = "built"
    /\ UNCHANGED <<paragraphHtml, tokenIndex, lines, markerBuffer, predpisHtml,
                   startIndex, provisions, ingestVars, runVars, fetchVars>>
    /\ UNCHANGED <<definitionVars, overlapVars>>
    /\ UNCHANGED reprocessed

\* a returned body as markup of its own: plain text, its lines separated by
\* newlines, with no div block in it
asBlock(body) == <<[kind |-> "other", raw |-> joinTexts(body)]>>

\* the body returned is handed to buildProvisionContent as a block
Reprocess ==
    /\ pc = "built"
    /\ reprocessed' = buildProvisionContent(asBlock(content))
    /\ pc' = "rebuilt"
    /\ UNCHANGED <<paragraphHtml, tokenIndex, lines, markerBuffer, content, predpisHtml,
                   startIndex, provisions, ingestVars, runVars, fetchVars>>
    /\ UNCHANGED <<definitionVars, overlapVars>>

NextContent == ReadToken \/ FinishContent \/ Reprocess

SpecContent == InitContent /\ [][NextContent]_vars

\* ------------------------------- parseActFromVersionPage: the provisions
\* The root block is the sequence of its elements: the start tags of the
\* provisions, each with the span that follows it, and the label blocks of
\* the hierarchy units, each with its optional heading block.  length is
\* the number of characters from the start of an element to the start of
\* the next one (or to the end of the block).
Units == <<"cast", "hlava", "diel", "oddiel", "skupinaParagrafov">>
undefined == <<>>

RECURSIVE offsetOf(_, _)
\* the index of the match of an element in predpisHtml
offsetOf(doc, e) == IF e = 1 THEN 0 ELSE offsetOf(doc, e - 1) + doc[e - 1].length

\* fetcher.ts:515-520
startsOf(doc) == SelectSeq([e \in 1..Len(doc) |-> e], LAMBDA e : doc[e].type = "paragraf")

RECURSIVE trailingUnits(_, _)
\* the unit blocks between a provision's span and the next start tag: they
\* are in the provision's block, as markup of no token kind
trailingUnits(doc, e) ==
    IF e > Len(doc) \/ doc[e].type = "paragraf" THEN <<>>
    ELSE <<[kind |-> "other", raw |-> doc[e].ozn \o doc[e].nadpis]>>
             \o trailingUnits(doc, e + 1)
\* fetcher.ts:524-526
blockOf(doc, e) == doc[e].span \o trailingUnits(doc, e + 1)

RECURSIVE charsOf(_)
\* the length of a text: its words and the blanks between them
charsOf(text) ==
    IF text = <<>> THEN 0
    ELSE Len(text[1]) + (IF Len(text) > 1 THEN 1 ELSE 0) + charsOf(Tail(text))
RECURSIVE lengthOf(_)
\* content.length: the lines and the newlines between them
lengthOf(body) ==
    IF body = <<>> THEN 0
    ELSE charsOf(body[1]) + (IF Len(body) > 1 THEN 1 ELSE 0) + lengthOf(Tail(body))

\* fetcher.ts:536
isNoise_onlyEmpty(body) == lengthOf(body) = 0
isNoise(body) == lengthOf(body) = 0 \/ lengthOf(body) < MIN_CONTENT_LENGTH

\* fetcher.ts:341-342: the elements whose blocks lie in the snippet
snippetOf_unbounded(doc, paragraphPos) ==
    SelectSeq([e \in 1..Len(doc) |-> e], LAMBDA e : offsetOf(doc, e) < paragraphPos)
snippetOf(doc, paragraphPos) ==
    LET lookbackStart == IF paragraphPos - LOOKBACK > 0 THEN paragraphPos - LOOKBACK ELSE 0
    IN  SelectSeq([e \in 1..Len(doc) |-> e],
                  LAMBDA e : /\ offsetOf(doc, e) >= lookbackStart
                             /\ offsetOf(doc, e) < paragraphPos)

\* fetcher.ts:329-331
mergedLabel(element) ==
    normalizeWhitespace(cleanTextFragment(element.ozn) \o cleanTextFragment(element.nadpis))

RECURSIVE findLastHierarchyUnit_first(_, _, _)
findLastHierarchyUnit_first(doc, snippet, unit) ==
    IF snippet = <<>> THEN undefined
    ELSE LET element == doc[snippet[1]]
         IN  IF element.type = "unit" /\ element.unit = unit /\ mergedLabel(element) # <<>>
             THEN mergedLabel(element)
             ELSE findLastHierarchyUnit_first(doc, Tail(snippet), unit)
RECURSIVE findLastHierarchyUnit(_, _, _)
\* fetcher.ts:317-338
findLastHierarchyUnit(doc, snippet, unit) ==
    IF snippet = <<>> THEN undefined
    ELSE LET element == doc[snippet[Len(snippet)]]
         IN  IF element.type = "unit" /\ element.unit = unit /\ mergedLabel(element) # <<>>
             THEN mergedLabel(element)
             ELSE findLastHierarchyUnit(doc, SubSeq(snippet, 1, Len(snippet) - 1), unit)

RECURSIVE joinParts(_)
\* parts.join(' / ')
joinParts(parts) ==
    IF Len(parts) = 1 THEN parts[1] ELSE parts[1] \o <<"/">> \o joinParts(Tail(parts))

\* fetcher.ts:340-354
findChapterLabel_broadestOnly(doc, paragraphPos) ==
    LET snippet == snippetOf(doc, paragraphPos)
        parts == SelectSeq([u \in 1..Len(Units) |-> findLastHierarchyUnit(doc, snippet, Units[u])],
                           LAMBDA part : part # undefined)
    IN  IF Len(parts) = 0 THEN undefined ELSE parts[1]
findChapterLabel(doc, paragraphPos) ==
    LET snippet == snippetOf(doc, paragraphPos)
        parts == SelectSeq([u \in 1..Len(Units) |-> findLastHierarchyUnit(doc, snippet, Units[u])],
                           LAMBDA part : part # undefined)
    IN  IF Len(parts) = 0 THEN undefined ELSE joinParts(parts)

\* fetcher.ts:523-547: one turn of the for loop
parseStart(doc, e, parsed) ==
    LET body == buildProvisionContent(blockOf(doc, e))
    IN  IF isNoise(body) THEN parsed
        ELSE Append(parsed, [start |-> e,
                             chapter |-> findChapterLabel(doc, offsetOf(doc, e)),
                             content |-> body])

\* the spans of the provisions of the documents checked: bodies of 0, 4, 5,
\* 5 ("(1) A"), 3 ("A", "B") and 5 ("ab", "cd") characters
Spans ==
    { <<>>,
      <<[kind |-> "text", raw |-> <<"abcd">>]>>,
      <<[kind |-> "text", raw |-> <<"abcde">>]>>,
      <<[kind |-> "odsekOznacenie", raw |-> <<"(1)">>], [kind |-> "text", raw |-> <<"A">>]>>,
      <<[kind |-> "text", raw |-> <<"A">>], [kind |-> "text", raw |-> <<"B">>]>>,
      <<[kind |-> "text", raw |-> <<"ab">>], [kind |-> "text", raw |-> <<"cd">>]>> }
Paragraphs == {[type |-> "paragraf", span |-> span, length |-> 100] : span \in Spans}
Lengths == {100, LOOKBACK}
UnitShapes ==
    [unit : {Units[u] : u \in 1..Len(Units)}, labelled : BOOLEAN, headed : BOOLEAN,
     length : Lengths]
\* the unit block of a shape at place e of a document; its texts name e
unitAt(shape, e) ==
    [type |-> "unit", unit |-> shape.unit, length |-> shape.length,
     ozn |-> IF shape.labelled THEN <<"Unit", ToString(e)>> ELSE <<"", Sup>>,
     nadpis |-> IF shape.headed THEN <<"Heading", ToString(e)>> ELSE <<>>]
\* documents of provisions only
ParagraphDocs == SeqsUpTo(Paragraphs, MaxParagraphs)
\* the document of the unit blocks of some shapes with a provision at place p
chapterDoc(shapes, p) ==
    [e \in 1..(Len(shapes) + 1) |->
        IF e < p THEN unitAt(shapes[e], e)
        ELSE IF e > p THEN unitAt(shapes[e - 1], e)
        ELSE [type |-> "paragraf", length |-> 100,
              span |-> <<[kind |-> "text", raw |-> <<"abcde">>]>>]]
\* documents of hierarchy units with one provision among them
ChapterDocs ==
    {chapterDoc(place[1], place[2]) :
        place \in {at \in SeqsUpTo(UnitShapes, MaxUnits) \X (1..(MaxUnits + 1)) :
                      at[2] <= Len(at[1]) + 1}}

InitAct ==
    /\ pc = "provisions"
    /\ predpisHtml \in ParagraphDocs \cup ChapterDocs
    /\ startIndex = 0 /\ provisions = <<>>
    /\ paragraphHtml = <<>> /\ tokenIndex = 0 /\ lines = <<>> /\ markerBuffer = <<>>
    /\ content = NoContent
    /\ historyHtml = <<>> /\ historyEntries = <<>> /\ asOfDate = 1
    /\ selection = NoSelection /\ thrown = ""
    /\ MainNotStarted /\ FetchNotStarted
    /\ DefinitionsNotStarted /\ NoCaller
    /\ reprocessed = NoContent

\* fetcher.ts:523-547: the for loop takes the next start
ParseStart ==
    /\ pc = "provisions" /\ startIndex < Len(startsOf(predpisHtml))
    /\ provisions' = parseStart(predpisHtml, startsOf(predpisHtml)[startIndex + 1], provisions)
    /\ startIndex' = startIndex + 1
    /\ UNCHANGED <<pc, predpisHtml, paragraphHtml, tokenIndex, lines, markerBuffer,
                   content, ingestVars, runVars, fetchVars>>
    /\ UNCHANGED <<definitionVars, overlapVars>>
    /\ UNCHANGED reprocessed

\* fetcher.ts:523 and 549-564: the loop is over
ReturnAct ==
    /\ pc = "provisions" /\ startIndex = Len(startsOf(predpisHtml))
    /\ pc' = "act"
    /\ UNCHANGED <<predpisHtml, startIndex, provisions, paragraphHtml, tokenIndex,
                   lines, markerBuffer, content, ingestVars, runVars, fetchVars>>
    /\ UNCHANGED <<definitionVars, overlapVars>>
    /\ UNCHANGED reprocessed

NextAct == ParseStart \/ ReturnAct

SpecAct == InitAct /\ [][NextAct]_vars

\* --------------------- overlapping fetchWithRateLimit calls, fetcher.ts
\* Several calls are in progress at once, as when the pipeline is invoked
\* once per law without awaiting the previous invocation. The calls share
\* lastRequestAt. A call runs until its next await; the timer or response
\* that is due first is served first. Every response has status 200.
Callers == 1..NumCallers
Waiting == {c \in Callers : callerPc[c] \in {"sleeping", "fetching"}}
\* no timer or response is due before the time t
NothingDueBefore(t) == \A c \in Waiting : callerDue[c] >= t
laterOf(a, b) == IF a > b THEN a ELSE b

InitOverlap ==
    /\ pc = "overlap"
    /\ callerPc = [c \in Callers |-> "idle"]
    /\ callerDue = [c \in Callers |-> 0]
    /\ callerRequestAt = [c \in Callers |-> -1]
    /\ callerOverlaps = [c \in Callers |-> {}]
    /\ historyHtml = <<>> /\ historyEntries = <<>> /\ asOfDate = 1
    /\ selection = NoSelection /\ thrown = ""
    /\ MainNotStarted /\ FetchNotStarted /\ ParserNotStarted /\ DefinitionsNotStarted

\* fetcher.ts:37: the call c starts its request at the time t
startRequest(c, t) ==
    /\ lastRequestAt' = t
    /\ prevRequestAt' = requestAt
    /\ requestAt' = t
    /\ callerRequestAt' = [callerRequestAt EXCEPT ![c] = t]
    /\ callerPc' = [callerPc EXCEPT ![c] = "fetching"]
    /\ \E latency \in Latencies : callerDue' = [callerDue EXCEPT ![c] = t + latency]

\* fetcher.ts:33-37 and 18-24: fetchWithRateLimit is called; applyRateLimit
\* reads lastRequestAt and either goes to sleep or goes on to the request
StartCall(c) ==
    /\ pc = "overlap" /\ callerPc[c] = "idle"
    /\ \E pause \in Pauses :
          /\ NothingDueBefore(now + pause)
          /\ now' = now + pause
    /\ callerOverlaps' = [callerOverlaps EXCEPT ![c] = Waiting]
    /\ LET elapsed == now' - lastRequestAt
       IN  IF elapsed < MIN_DELAY_MS
           THEN /\ callerPc' = [callerPc EXCEPT ![c] = "sleeping"]
                /\ callerDue' = [callerDue EXCEPT ![c] = now' + (MIN_DELAY_MS - elapsed)]
                /\ UNCHANGED <<lastRequestAt, requestAt, prevRequestAt, callerRequestAt>>
           ELSE startRequest(c, now')
    /\ UNCHANGED <<pc, attempt, response, callCount, skipFetch, pageCache, pageResult,
                   ingestVars, runVars, parserVars, definitionVars>>

\* fetcher.ts:20-23 and 37: the timer of the sleeping call c fires, no
\* earlier than it is due; the call writes lastRequestAt and starts its request
Wake(c) ==
    /\ pc = "overlap" /\ callerPc[c] = "sleeping"
    /\ NothingDueBefore(callerDue[c])
    /\ \E late \in Overshoots : now' = laterOf(now, callerDue[c]) + late
    /\ startRequest(c, now')
    /\ UNCHANGED <<pc, attempt, response, callCount, skipFetch, pageCache, pageResult,
                   callerOverlaps, ingestVars, runVars, parserVars, definitionVars>>

\* fetcher.ts:37 and 51-57: the response to the request of the call c arrives
\* and the call returns
Respond(c) ==
    /\ pc = "overlap" /\ callerPc[c] = "fetching"
    /\ NothingDueBefore(callerDue[c])
    /\ now' = laterOf(now, callerDue[c])
    /\ callerPc' = [callerPc EXCEPT ![c] = "done"]
    /\ UNCHANGED <<pc, lastRequestAt, requestAt, prevRequestAt, attempt, response,
                   callCount, skipFetch, pageCache, pageResult, callerDue,
                   callerRequestAt, callerOverlaps, ingestVars, runVars, parserVars,
                   definitionVars>>

NextOverlap == \E c \in Callers : StartCall(c) \/ Wake(c) \/ Respond(c)

SpecOverlap == InitOverlap /\ [][NextOverlap]_vars

\* ------------------------------------- extractDefinitions, fetcher.ts
\* A content line is written as the pieces the two regular expressions see:
\* whether it starts with a letter marker such as "a) ", and the text after
\* the marker as its part before the first separator (",", ";", " je ", ...)
\* and the rest, which starts with that separator. Each line carries the
\* provision it belongs to: definitionLines is the lines of all provisions in
\* document order.
RECURSIVE repeat(_, _)
repeat(text, n) ==
    IF n = 0 THEN ""
    ELSE IF n % 2 = 1 THEN text \o repeat(text, n - 1)
    ELSE LET half == repeat(text, n \div 2) IN half \o half

DefinitionTitle == "Vymedzenie pojmov"
OtherTitle == "Predmet"
LongRest == ", je prva vec"
OtherLongRest == ", je druha vec"
ShortRest == ", je malo"

\* fetcher.ts:400-406: the title names definitions or the content opens with
\* "na ucely tohto zakona sa rozumie"
isDefinitionLike(provision) ==
    provision.title = DefinitionTitle \/ provision.opensWithPurpose

\* String.toLowerCase on the terms used here
toLowerCase(text) == IF text = "Ab" THEN "ab" ELSE text

\* fetcher.ts:414, the text after the marker
definitionTextOf(line) == line.head \o line.rest
\* fetcher.ts:417-419, the piece before the first separator
termOf(line) == line.head

termAllowed(term) ==
    ~(Len(term) < MIN_TERM_LENGTH \/ Len(term) > MAX_TERM_LENGTH)

\* fetcher.ts:423
keyOf_caseSensitive(provision, term) == provision.provision_ref \o "|" \o term
keyOf(provision, term) == provision.provision_ref \o "|" \o toLowerCase(term)

\* fetcher.ts:410-431, one turn of the inner loop: the pair <<seen, out>>
\* after the line
readLine(line, seenKeys, defs) ==
    IF ~isDefinitionLike(line.provision) THEN <<seenKeys, defs>>
    ELSE IF ~line.lettered THEN <<seenKeys, defs>>
    ELSE IF Len(definitionTextOf(line)) < MIN_DEFINITION_LENGTH THEN <<seenKeys, defs>>
    ELSE IF ~termAllowed(termOf(line)) THEN <<seenKeys, defs>>
    ELSE IF keyOf(line.provision, termOf(line)) \in seenKeys THEN <<seenKeys, defs>>
    ELSE <<seenKeys \cup {keyOf(line.provision, termOf(line))},
           Append(defs, [term |-> termOf(line),
                         definition |-> definitionTextOf(line),
                         source_provision |-> line.provision.provision_ref])>>

DefinitionProvision(ref) ==
    [provision_ref |-> ref, title |-> DefinitionTitle, opensWithPurpose |-> FALSE]
ContentLines ==
    [provision : {DefinitionProvision("§1"), DefinitionProvision("§2")},
     lettered : {TRUE}, head : {"ab", "Ab"}, rest : {LongRest, OtherLongRest}]
    \cup [provision : {DefinitionProvision("§1")}, lettered : {TRUE},
          head : {"", "x", repeat("m", MAX_TERM_LENGTH), repeat("m", MAX_TERM_LENGTH + 1)},
          rest : {LongRest}]
    \cup [provision : {DefinitionProvision("§1")}, lettered : {TRUE},
          head : {"ab"}, rest : {ShortRest}]
    \cup [provision : {DefinitionProvision("§1")}, lettered : {FALSE},
          head : {"ab"}, rest : {LongRest}]
    \cup [provision : [provision_ref : {"§1"}, title : {OtherTitle},
                       opensWithPurpose : BOOLEAN],
          lettered : {TRUE}, head : {"ab"}, rest : {LongRest}]

InitDefinitions ==
    /\ pc = "definitions"
    /\ definitionLines \in SeqsUpTo(ContentLines, MaxLines)
    /\ lineIndex = 0 /\ seen = {} /\ out = <<>>
    /\ historyHtml = <<>> /\ historyEntries = <<>> /\ asOfDate = 1
    /\ selection = NoSelection /\ thrown = ""
    /\ MainNotStarted /\ FetchNotStarted /\ ParserNotStarted /\ NoCaller

\* fetcher.ts:399-432: the loops take the next line
ReadLine ==
    /\ pc = "definitions" /\ lineIndex < Len(definitionLines)
    /\ LET after == readLine(definitionLines[lineIndex + 1], seen, out)
       IN  seen' = after[1] /\ out' = after[2]
    /\ lineIndex' = lineIndex + 1
    /\ UNCHANGED <<pc, definitionLines, ingestVars, runVars, fetchVars, parserVars,
                   overlapVars>>

\* fetcher.ts:435
ReturnDefinitions ==
    /\ pc = "definitions" /\ lineIndex = Len(definitionLines)
    /\ pc' = "extracted"
    /\ UNCHANGED <<ingestVars, runVars, fetchVars, parserVars, definitionVars,
                   overlapVars>>

NextDefinitions == ReadLine \/ ReturnDefinitions

SpecDefinitions == InitDefinitions /\ [][NextDefinitions]_vars

\* ------------------------------------------ claims on selectHistoryEntry
\* The claims speak of the input directly, not through the operators above.
Candidates ==
    {i \in 1..Len(historyEntries) :
        ~historyEntries[i].isPromulgatedVersion /\ historyEntries[i].inForceFrom # 0}
Covering ==
    {i \in Candidates :
        /\ historyEntries[i].inForceFrom <= asOfDate
        /\ (historyEntries[i].inForceTo = 0 \/ historyEntries[i].inForceTo >= asOfDate)}
Upcoming == {i \in Candidates : historyEntries[i].inForceFrom > asOfDate}
From(i) == historyEntries[i].inForceFrom
To(i) == historyEntries[i].inForceTo
Selected == pc = "selected"

\* C1: when some candidate covers the reference date (from <= date and to
\* empty or to >= date) the call returns in_force and selects a covering
\* candidate of greatest in-force-from; a candidate with an empty in-force-to
\* that has started always makes the result in_force.
C1_ActiveSelectsLast ==
    Selected =>
        /\ (Covering # {} =>
              /\ selection.outcome = "returned"
              /\ selection.status = "in_force"
              /\ selection.selected \in Covering
              /\ \A c \in Covering : From(c) <= From(selection.selected))
        /\ ((\E c \in Candidates : To(c) = 0 /\ From(c) <= asOfDate) =>
              selection.status = "in_force")
C1_Witness ==
    /\ Selected
    /\ selection.status = "in_force"
    /\ \E c \in Covering : From(c) < From(selection.selected)
    /\ To(selection.selected) = 0
    /\ From(selection.selected) < asOfDate

\* C2: when no candidate covers the reference date and some candidate starts
\* after it, the call selects an earliest such candidate, returns
\* not_yet_in_force and reports the selected entry's own in-force-from.
C2_FutureSelectsEarliest ==
    (Selected /\ Covering = {} /\ Upcoming # {}) =>
        /\ selection.outcome = "returned"
        /\ selection.status = "not_yet_in_force"
        /\ selection.selected \in Upcoming
        /\ \A f \in Upcoming : From(selection.selected) <= From(f)
        /\ selection.firstInForceDate = From(selection.selected)
C2_Witness ==
    /\ Selected
    /\ Covering = {}
    /\ selection.status = "not_yet_in_force"
    /\ \E c \in Candidates : From(c) < From(selection.selected)

\* C3: a call on an input with a candidate returns repealed exactly when
\* every candidate has started and has a non-empty in-force-to before the
\* reference date; it then selects the last candidate in ascending
\* in-force-from order and reports the earliest in-force-from.
C3_RepealedExactly ==
    (Selected /\ Candidates # {}) =>
        /\ (selection.status = "repealed") <=>
              (\A c \in Candidates :
                   From(c) <= asOfDate /\ To(c) # 0 /\ To(c) < asOfDate)
        /\ (selection.status = "repealed" =>
              /\ selection.selected \in Candidates
              /\ \A c \in Candidates :
                    \/ From(c) < From(selection.selected)
                    \/ (From(c) = From(selection.selected) /\ c <= selection.selected)
              /\ \A c \in Candidates : selection.firstInForceDate <= From(c)
              /\ \E c \in Candidates : selection.firstInForceDate = From(c))
C3_Witness ==
    /\ Selected
    /\ selection.status = "repealed"
    /\ Cardinality(Candidates) >= 2
    /\ selection.firstInForceDate < From(selection.selected)

\* C4: the returned entry is one of the input entries, is not a promulgation
\* entry and has a non-empty in-force-from.
C4_SelectedIsCandidate ==
    (Selected /\ selection.outcome = "returned") =>
        /\ selection.selected \in 1..Len(historyEntries)
        /\ ~historyEntries[selection.selected].isPromulgatedVersion
        /\ historyEntries[selection.selected].inForceFrom # 0
C4_Witness ==
    /\ Selected
    /\ selection.outcome = "returned"
    /\ \E i \in 1..Len(historyEntries) :
          /\ historyEntries[i].isPromulgatedVersion
          /\ historyEntries[i].inForceFrom # 0
          /\ historyEntries[i].inForceFrom <= asOfDate
          /\ historyEntries[i].inForceTo = 0
          /\ historyEntries[i].inForceFrom > From(selection.selected)

\* C5: the call throws exactly when the input holds no candidate (the empty
\* list included), and a throwing call yields neither a selection nor a status.
C5_ThrowsIffNoCandidate ==
    Selected =>
        /\ (selection.outcome = "threw") <=> (Candidates = {})
        /\ (selection.outcome = "returned") <=> (Candidates # {})
        /\ (Candidates = {} => selection.selected = 0 /\ selection.status = "")
C5_Witness ==
    /\ Selected
    /\ selection.outcome = "threw"
    /\ Len(historyEntries) = 2
    /\ historyEntries[1].isPromulgatedVersion
    /\ historyEntries[2].inForceFrom = 0 /\ ~historyEntries[2].isPromulgatedVersion

\* C6 as claimed: at reference date D no candidate with in-force-to = D is
\* counted as active, and none is selected as the version in force.
C6_EndExclusive ==
    Selected =>
        /\ \A k \in 1..Len(active(historyEntries, asOfDate)) :
              To(active(historyEntries, asOfDate)[k]) # asOfDate
        /\ (selection.status = "in_force" => To(selection.selected) # asOfDate)
\* C6 as amended: the end of the range is inclusive. Every candidate with
\* in-force-from <= D and in-force-to = D is counted as active at D and the
\* call returns in_force; a candidate that has started is left out of the
\* active ones only when its in-force-to is non-empty and strictly before D.
C6_EndInclusive ==
    Selected =>
        LET act == active(historyEntries, asOfDate)
            members == {act[k] : k \in 1..Len(act)}
        IN  /\ \A c \in Candidates :
                  (From(c) <= asOfDate /\ To(c) = asOfDate) =>
                      (c \in members /\ selection.status = "in_force")
            /\ \A c \in Candidates :
                  (From(c) <= asOfDate /\ c \notin members) =>
                      (To(c) # 0 /\ To(c) < asOfDate)
C6_Witness ==
    /\ Selected
    /\ selection.status = "in_force"
    /\ To(selection.selected) = asOfDate
    /\ Covering = {selection.selected}

\* C7: candidates with equal in-force-from keep their input order in the
\* sorted list, and among the candidates covering the reference date with
\* the selected entry's in-force-from the one declared last is selected.
C7_StableTieBreak ==
    Selected =>
        LET eff == effective(historyEntries)
        IN  /\ \A j, k \in 1..Len(eff) :
                  (j < k /\ From(eff[j]) = From(eff[k])) => eff[j] < eff[k]
            /\ (selection.status = "in_force" =>
                  \A c \in Covering :
                      From(c) = From(selection.selected) => c <= selection.selected)
C7_Witness ==
    /\ Selected
    /\ selection.status = "in_force"
    /\ selection.selected = 2
    /\ 1 \in Covering
    /\ From(1) = From(2)

\* ----------------------------------------- claims on parseHistoryEntries
\* a row that carries all four attributes: a tag the pattern reads and an
\* anchor of its own
CompleteRows ==
    {r \in 1..Len(historyHtml) :
        historyHtml[r].vyhlasene \in {"0", "1"} /\ Len(historyHtml[r].links) > 0}
RowFields(r) ==
    [isPromulgatedVersion |-> historyHtml[r].vyhlasene = "1",
     inForceFrom |-> historyHtml[r].ucinnostod,
     inForceTo |-> historyHtml[r].ucinnostdo,
     href |-> historyHtml[r].links[1]]
\* no tag the pattern reads is followed by an anchor: no history row is found
NoRowFound ==
    ~ \E r \in 1..Len(historyHtml) :
          /\ historyHtml[r].vyhlasene \in {"0", "1"}
          /\ \E j \in r..Len(historyHtml) : Len(historyHtml[j].links) > 0

\* C9 as claimed: the entries are the rows that carry the four attributes,
\* one entry per row and in document order, each entry with the promulgation
\* flag, the two dates and the link of its own row.
C9_OneEntryPerRow ==
    pc = "parsed" =>
        /\ Len(historyEntries) = Cardinality(CompleteRows)
        /\ \A k \in 1..Len(historyEntries) :
              \E r \in CompleteRows :
                  /\ Cardinality({q \in CompleteRows : q <= r}) = k
                  /\ historyEntries[k] = RowFields(r)

\* C10 as claimed: parseHistoryEntries never returns an empty list (it
\* throws when no history row is found).
C10_NeverReturnsEmpty == pc = "parsed" => historyEntries # <<>>
\* C10 as amended: parseHistoryEntries throws nothing and returns the empty
\* list exactly when no history row is found; it is ingestLaw that throws
\* "No history entries found in law history page" on the empty list, before
\* any version is selected, so an empty list is never used as a result.
C10_EmptyListFailsInIngestLaw ==
    /\ pc = "parsed" => (thrown = "" /\ (historyEntries = <<>> <=> NoRowFound))
    /\ pc = "threw" =>
          (NoRowFound /\ historyEntries = <<>> /\ thrown = NoHistoryEntries
             /\ selection = NoSelection)
    /\ pc \in {"select", "selected"} => (~NoRowFound /\ historyEntries # <<>>)
C10_Witness ==
    /\ pc = "threw"
    /\ Len(historyHtml) = 2
    /\ historyHtml[1].vyhlasene = "x" /\ Len(historyHtml[1].links) > 0
    /\ historyHtml[2].vyhlasene = "0" /\ Len(historyHtml[2].links) = 0

\* ---------------------------------------------------------------------------
\* Claims on the status main() gives an ingested law
\* ---------------------------------------------------------------------------

SummaryEntries(law) == {i \in DOMAIN versionSummary : versionSummary[i].lawId = law}
IngestedThisRun(law) == seeds[law].writer = "this run"
IngestsLaw == ingestedCount' = ingestedCount + 1
\* the statuses selectHistoryEntry can compute for the run's reference date
\* from any history page of the portal
ComputableStatuses ==
    {selectHistoryEntry(parseHistoryEntries(page), asOfDate).status :
        page \in {p \in PortalPages :
            selectHistoryEntry(parseHistoryEntries(p), asOfDate).outcome = "returned"}}

\* C8 as stated: every law ingested in a run gets a status of the
\* enumeration (with unknown), and that status is one computed from the run's
\* reference date against history entries.  Violated by a --metadata-only
\* run, which writes unknown without looking at any history.
C8_StatusComputedFromHistory ==
    [][IngestsLaw =>
          /\ seeds'[CurrentLaw].status \in DocumentStatus \cup {"unknown"}
          /\ seeds'[CurrentLaw].status \in ComputableStatuses]_vars

\* C8 as the code has it: every law ingested in a run has exactly one entry
\* in the run's version summary, carrying the status written to its seed; in a
\* full-text run that status is the one selectHistoryEntry computes from the
\* reference date against the entries parsed from the law's history page, one
\* of in_force, not_yet_in_force, repealed; in a --metadata-only run it is
\* unknown and no history is read.
C8_OneStatusPerIngestedLaw ==
    /\ [](\A law \in Laws : IngestedThisRun(law) =>
            /\ Cardinality(SummaryEntries(law)) = 1
            /\ \A i \in SummaryEntries(law) : versionSummary[i].status = seeds[law].status
            /\ seeds[law].status \in DocumentStatus \cup {"unknown"})
    /\ [][IngestsLaw =>
            LET computed == selectHistoryEntry(parseHistoryEntries(historyHtml), asOfDate)
                written == seeds'[CurrentLaw]
            IN  /\ written.exists /\ written.writer = "this run"
                /\ \A other \in Laws \ {CurrentLaw} : seeds'[other] = seeds[other]
                /\ IF args.metadataOnly
                   THEN written.status = "unknown" /\ historyHtml = <<>>
                   ELSE /\ computed.outcome = "returned"
                        /\ written.status = computed.status
                        /\ written.status \in {"in_force", "not_yet_in_force", "repealed"}]_vars
\* a full-text run has ingested every target, one of them not yet in force
\* and one of them with another status
C8_Witness ==
    /\ ~args.metadataOnly
    /\ pc = "loop" /\ lawIndex = Len(targets) /\ ingestedCount >= 2
    /\ \E a, b \in Laws :
          /\ IngestedThisRun(a) /\ seeds[a].status = "not_yet_in_force"
          /\ IngestedThisRun(b) /\ seeds[b].status \in {"in_force", "repealed"}


\* ---------------------------------------------------------------------------
\* Claims on the failures of a run
\* ---------------------------------------------------------------------------

FailureEntries(law) == {i \in DOMAIN failures : failures[i].lawId = law}
Processed == {targets[k] : k \in 1..lawIndex}
FailsLaw == Len(failures') = Len(failures) + 1

\* C11 as stated: a law whose version page is fetched and parsed but yields
\* no provision is a failure and gets no seed, so a full-text run never
\* writes a seed without provisions.  Violated: parseActFromVersionPage
\* returns the act with an empty provisions list and main() writes it.
C11_ZeroProvisionsFails ==
    ~args.metadataOnly =>
        \A law \in Laws : IngestedThisRun(law) => seeds[law].provisions > 0

\* C12: a failure while ingesting a law is caught in the loop: it is recorded
\* with the law's id and a non-empty reason, the law has no seed and no entry
\* in the version summary, the loop goes on with the next target, and the
\* run ends only after every target was processed, each exactly once.
C12_PerLawContainment ==
    /\ [](/\ \A i \in DOMAIN failures :
               /\ failures[i].lawId \in Processed
               /\ failures[i].reason # ""
               /\ ~seeds[failures[i].lawId].exists
               /\ SummaryEntries(failures[i].lawId) = {}
          /\ \A law \in Processed :
               Cardinality(SummaryEntries(law)) + Cardinality(FailureEntries(law)) = 1
          /\ (pc = "exit" /\ targets # <<>>) => lawIndex = Len(targets))
    /\ [][FailsLaw =>
            /\ failures' = Append(failures, failures'[Len(failures')])
            /\ failures'[Len(failures')].lawId = CurrentLaw
            /\ lawIndex' = lawIndex + 1
            /\ pc' = "loop" /\ exitCode' = exitCode
            /\ seeds' = seeds]_vars
\* a run has ended in which the first target failed and a later one was
\* ingested
C12_Witness ==
    /\ pc = "exit" /\ Len(targets) >= 2
    /\ FailureEntries(targets[1]) # {}
    /\ \E k \in 2..Len(targets) : IngestedThisRun(targets[k])

\* C13: the run ends in failure only if no law was ingested in it; a run
\* that ingested a law ends in success whatever failed.
C13_FailsOnlyIfNoneIngested ==
    /\ exitCode = 1 => ingestedCount = 0
    /\ (pc = "exit" /\ ingestedCount >= 1) => exitCode = 0
\* a run that ingested a law and failed on another has ended
C13_Witness ==
    pc = "exit" /\ exitCode = 0 /\ ingestedCount >= 1 /\ failures # <<>>


\* ---------------------------------------------------------------------------
\* Claims on fetchWithRateLimit and getPage
\* ---------------------------------------------------------------------------

\* C14 as stated: any two requests are started at least 1.2 seconds apart,
\* retries and the first request of the call after a retried call included.
\* Violated: lastRequestAt is written only by applyRateLimit, before the
\* first request of a call, so the call after a retried call measures its
\* delay from that first request and starts right after the last retry.
C14_RequestsSpaced ==
    prevRequestAt # -1 => requestAt - prevRequestAt >= MIN_DELAY_MS

RetriedStatus == response = 429 \/ response >= 500
\* C15: a call retries exactly on a response with status 429 or >= 500 and
\* only while fewer than 3 retries were made, so it sends at most 4
\* requests; the waits before the retries are at least 2 s, 4 s and 8 s; a
\* response with any other status, and the response to the fourth request,
\* ends the call; and every call ends.
C15_RetriesAndTerminates ==
    /\ [](attempt <= 3)
    /\ [][attempt' = attempt + 1 =>
            /\ pc = "responded" /\ RetriedStatus /\ attempt < 3
            /\ now' - now >= CASE attempt = 0 -> 2000
                               [] attempt = 1 -> 4000
                               [] OTHER -> 8000
            /\ pc' = "fetch"]_vars
    /\ [][pc = "responded" =>
            IF RetriedStatus /\ attempt < 3
            THEN attempt' = attempt + 1
            ELSE pc' = "caller" /\ pageResult'.outcome # "none" /\ requestAt' = requestAt]_vars
    /\ (pc = "applyRateLimit") ~> (pc = "caller")
\* a call has ended after four requests, the last one answered 503
C15_Witness ==
    /\ pc = "caller" /\ attempt = 3 /\ response = 503
    /\ pageResult.outcome = "threw"
    /\ requestAt - lastRequestAt >= 2000 + 4000 + 8000

\* C16: when the response fetchWithRateLimit returns is not a 200, after
\* the retries too, getPage throws, returns no body and leaves the cache
\* file as it was; the cache file, when there is one, holds the body of a
\* 200 response, and so does every page getPage returns.
C16_Non200IsHardFailure ==
    /\ [](/\ pageCache \in {NoFile, OkBody}
          /\ pageResult.outcome = "returned" => pageResult.body = OkBody)
    /\ [][(pc = "responded" /\ pc' = "caller" /\ response # 200) =>
            /\ pageResult'.outcome = "threw"
            /\ pageResult'.body = ""
            /\ pageResult'.error = "HTTP " \o ToString(response) \o " for page"
            /\ pageCache' = pageCache]_vars
\* a call ended with a 429 still received after the last retry; the page
\* cached before is still there
C16_Witness ==
    /\ pc = "caller" /\ attempt = 3 /\ response = 429
    /\ pageResult.outcome = "threw"
    /\ pageCache = OkBody


\* ---------------------------------------------------------------------------
\* Claims on buildProvisionContent
\* ---------------------------------------------------------------------------

Scanned == SubSeq(tokensOf(paragraphHtml), 1, tokenIndex)
TextBlocks == {i \in 1..tokenIndex : Scanned[i].kind = "text"}
\* the text block that made the k-th line, if every text block makes one
TextBlock(k) ==
    CHOOSE i \in TextBlocks : Cardinality({j \in TextBlocks : j <= i}) = k
\* the cleaned texts of the markers between the text block before i and i
MarkersBefore(i) ==
    LET from == IF \E j \in TextBlocks : j < i
                THEN (CHOOSE j \in TextBlocks : j < i /\ \A h \in TextBlocks : h < i => h <= j) + 1
                ELSE 1
    IN  [m \in 1..(i - from) |-> cleanTextFragment(Scanned[from + m - 1].raw)]

\* C17 as stated: every text block of the span makes exactly one line, in
\* source order: the cleaned texts of the markers since the text block
\* before it, joined by spaces, a space, and its own cleaned text; and the
\* marker buffer is empty after every text block.  Violated by a text block
\* whose cleaned text is empty: it makes no line and leaves the buffer.
C17_OneLinePerTextBlock ==
    /\ Len(lines) = Cardinality(TextBlocks)
    /\ \A k \in 1..Len(lines) : k <= Cardinality(TextBlocks) =>
          lines[k] = joinTexts(MarkersBefore(TextBlock(k)))
                        \o cleanTextFragment(Scanned[TextBlock(k)].raw)
    /\ (tokenIndex > 0 /\ Scanned[tokenIndex].kind = "text") => markerBuffer = <<>>

Built == pc = "built" /\ lines # <<>>
Kept == {i \in 1..Len(lines) : i = 1 \/ lines[i] # lines[i - 1]}
\* C18: the body's lines are the constructed lines without those equal to
\* the line right before them, in order, and no other line is dropped: no
\* two neighbours of the body are equal, a repeat further away stays, and
\* [A, A, B, A] becomes [A, B, A].
C18_ConsecutiveDedup ==
    Built =>
        /\ Len(content) = Cardinality(Kept)
        /\ \A k \in 1..Len(content) :
              \E i \in Kept : Cardinality({j \in Kept : j <= i}) = k /\ content[k] = lines[i]
        /\ \A k \in 1..(Len(content) - 1) : content[k] # content[k + 1]
        /\ lines = << <<"A">>, <<"A">>, <<"B">>, <<"A">> >>
              => content = << <<"A">>, <<"B">>, <<"A">> >>
\* the lines [A, A, B, A] were built and the body is returned
C18_Witness ==
    /\ pc = "built"
    /\ lines = << <<"A">>, <<"A">>, <<"B">>, <<"A">> >>
    /\ content = << <<"A">>, <<"B">>, <<"A">> >>


\* ---------------------------------------------------------------------------
\* Claims on the provisions of parseActFromVersionPage
\* ---------------------------------------------------------------------------

ActParsed == pc = "act"
BodyOf(e) == buildProvisionContent(blockOf(predpisHtml, e))
\* the start tags whose span has a body of at least 5 characters
Qualifying ==
    {e \in 1..Len(predpisHtml) : predpisHtml[e].type = "paragraf" /\ lengthOf(BodyOf(e)) >= 5}

\* C19: the provisions are exactly the spans whose body has at least 5
\* characters, in the order of their start tags; no provision has an empty
\* body or one shorter than 5 characters, and no qualifying span is missing.
C19_ProvisionsAreQualifyingSpans ==
    /\ \A k \in 1..Len(provisions) :
          /\ provisions[k].content # <<>>
          /\ lengthOf(provisions[k].content) >= 5
          /\ provisions[k].start \in Qualifying
          /\ provisions[k].content = BodyOf(provisions[k].start)
    /\ \A k \in 1..(Len(provisions) - 1) : provisions[k].start < provisions[k + 1].start
    /\ ActParsed => {provisions[k].start : k \in 1..Len(provisions)} = Qualifying
\* of three spans the first and the third qualify and the second, with a
\* body of 4 characters, does not; the two are the provisions, in order
C19_Witness ==
    /\ ActParsed /\ Len(predpisHtml) = 3
    /\ \A e \in 1..3 : predpisHtml[e].type = "paragraf"
    /\ lengthOf(BodyOf(2)) = 4
    /\ Len(provisions) = 2
    /\ provisions[1].start = 1 /\ provisions[2].start = 3
    /\ lengthOf(provisions[1].content) = 5

\* the unit blocks of a kind in the lookback window of the provision that
\* starts at element e whose label and heading are not both empty
Occurrences(e, unit) ==
    {u \in 1..(e - 1) :
        /\ predpisHtml[u].type = "unit" /\ predpisHtml[u].unit = unit
        /\ offsetOf(predpisHtml, e) - offsetOf(predpisHtml, u) <= 15000
        /\ cleanTextFragment(predpisHtml[u].ozn) \o cleanTextFragment(predpisHtml[u].nadpis) # <<>>}
LastOccurrence(e, unit) ==
    CHOOSE u \in Occurrences(e, unit) : \A v \in Occurrences(e, unit) : v <= u
Contribution(e, unit) ==
    IF Occurrences(e, unit) = {} THEN <<>>
    ELSE << cleanTextFragment(predpisHtml[LastOccurrence(e, unit)].ozn)
              \o cleanTextFragment(predpisHtml[LastOccurrence(e, unit)].nadpis) >>
\* the contributions in the order part, head, division, subdivision,
\* paragraph group
Contributions(e) ==
    Contribution(e, "cast") \o Contribution(e, "hlava") \o Contribution(e, "diel")
        \o Contribution(e, "oddiel") \o Contribution(e, "skupinaParagrafov")
RECURSIVE SlashJoined(_)
SlashJoined(parts) ==
    IF parts = <<>> THEN <<>>
    ELSE IF Len(parts) = 1 THEN parts[1]
    ELSE parts[1] \o <<"/">> \o SlashJoined(Tail(parts))

\* C20: the chapter label of a provision is the " / "-join, in the order
\* part, head, division, subdivision, paragraph group, of the last
\* non-empty occurrence (label merged with heading) of each unit kind in the
\* 15000 characters before the provision's start; a kind without one adds
\* nothing, and with no kind at all the provision has no chapter label.
C20_ChapterLabel ==
    \A k \in 1..Len(provisions) :
        /\ provisions[k].chapter = SlashJoined(Contributions(provisions[k].start))
        /\ Contributions(provisions[k].start) = <<>> => provisions[k].chapter = undefined
\* a head block and then a part block stand before the provision, both in
\* the window: the label is the part's, " / ", the head's
C20_Witness ==
    /\ ActParsed /\ Len(predpisHtml) = 3 /\ Len(provisions) = 1
    /\ predpisHtml[1].type = "unit" /\ predpisHtml[1].unit = "hlava"
    /\ predpisHtml[2].type = "unit" /\ predpisHtml[2].unit = "cast"
    /\ provisions[1].chapter = <<"Unit", "2", "Heading", "2", "/", "Unit", "1">>


\* the unit blocks whose label or heading text is in the chapter label of
\* the k-th provision (the texts of a unit block name its place)
NamedIn(k) ==
    {u \in 1..Len(predpisHtml) :
        \E j \in 1..(Len(provisions[k].chapter) - 1) :
            /\ provisions[k].chapter[j] \in {"Unit", "Heading"}
            /\ provisions[k].chapter[j + 1] = ToString(u)}
Distance(k, u) == offsetOf(predpisHtml, provisions[k].start) - offsetOf(predpisHtml, u)

\* C21: a hierarchy marker more than 15000 characters before the start of a
\* provision is not in that provision's chapter label, and neither is a
\* marker at or after the start.
C21_LookbackBounded ==
    \A k \in 1..Len(provisions) : \A u \in NamedIn(k) :
        Distance(k, u) > 0 /\ Distance(k, u) <= 15000
\* a labelled part block 15100 characters before the provision and a
\* labelled head block 100 characters before it: only the head is named
C21_Witness ==
    /\ ActParsed /\ Len(predpisHtml) = 3 /\ Len(provisions) = 1
    /\ provisions[1].start = 3
    /\ predpisHtml[1].unit = "cast" /\ predpisHtml[1].ozn = <<"Unit", "1">>
    /\ predpisHtml[2].unit = "hlava"
    /\ Distance(1, 1) = 15100
    /\ provisions[1].chapter = <<"Unit", "2">>

\* the places of the unit blocks named in the chapter label of the k-th
\* provision, in the order the label names them
NamedAt(k, j) ==
    CHOOSE u \in 1..Len(predpisHtml) : provisions[k].chapter[j + 1] = ToString(u)
UnitKinds == {Units[i] : i \in 1..Len(Units)}

\* C29 as stated: in a chapter label every narrower unit occurs in the
\* document after the broader unit named before it.  Violated: the last
\* block of each kind is taken on its own, so a head block left over from
\* an earlier part is joined to a later part that has no head of its own.
C29_PathConsistent ==
    \A k \in 1..Len(provisions) :
        \A i, j \in 1..(Len(provisions[k].chapter) - 1) :
            (/\ i < j
             /\ provisions[k].chapter[i] = "Unit" \/ provisions[k].chapter[i] = "Heading"
             /\ provisions[k].chapter[j] = "Unit" \/ provisions[k].chapter[j] = "Heading")
            => NamedAt(k, i) <= NamedAt(k, j)

\* C29 as the code has it: the label names, for every unit kind with a
\* non-empty block in the lookback window, the last such block, and no
\* other block, whether or not a block of a broader kind stands after it.
C29_LastOfEachKind ==
    \A k \in 1..Len(provisions) :
        NamedIn(k) = {LastOccurrence(provisions[k].start, unit) :
                         unit \in {kind \in UnitKinds :
                                      Occurrences(provisions[k].start, kind) # {}}}
\* a head block, then a part block, then the provision: the label names
\* both, the part first
C29_Witness ==
    /\ ActParsed /\ Len(provisions) = 1 /\ provisions[1].start = 3
    /\ predpisHtml[1].unit = "hlava" /\ predpisHtml[2].unit = "cast"
    /\ NamedIn(1) = {1, 2}
    /\ NamedAt(1, 1) = 2


Markers == {i \in 1..tokenIndex : Scanned[i].kind # "text" /\ cleanTextFragment(Scanned[i].raw) # <<>>}
Texts == {i \in 1..tokenIndex : Scanned[i].kind = "text" /\ cleanTextFragment(Scanned[i].raw) # <<>>}
\* the k-th text block with a non-empty cleaned text; 0 for k = 0
Text(k) ==
    IF k = 0 THEN 0
    ELSE CHOOSE i \in Texts : Cardinality({j \in Texts : j <= i}) = k
\* the cleaned texts of the markers between two tokens, in order
MarkerTexts(from, to) ==
    LET between == SelectSeq([i \in 1..tokenIndex |-> i],
                             LAMBDA i : i \in Markers /\ from < i /\ i < to)
    IN  [m \in 1..Len(between) |-> cleanTextFragment(Scanned[between[m]].raw)]
\* the text block, empty or not, right before token i; 0 if there is none
TextBlockBefore(i) ==
    IF \E j \in TextBlocks : j < i
    THEN CHOOSE j \in TextBlocks : j < i /\ \A h \in TextBlocks : h < i => h <= j
    ELSE 0
RECURSIVE CountOf(_, _)
\* how often a word is in a text
CountOf(word, text) ==
    IF text = <<>> THEN 0
    ELSE (IF text[1] = word THEN 1 ELSE 0) + CountOf(word, Tail(text))

\* C30 as stated: when the span yields a marker-based line, every marker
\* with a non-empty cleaned text is in the lines exactly once, at the start
\* of the line of the first text block after it: none is dropped and none
\* is carried past a text block.  Violated by a marker after the last text
\* block, which is dropped, and by a marker before a text block whose
\* cleaned text is empty, which is carried to the next line.
C30_NoMarkerLost ==
    Built =>
        /\ \A word \in {"(1)", "a)", "1."} :
              CountOf(word, joinTexts(lines))
                  = Cardinality({i \in Markers : cleanTextFragment(Scanned[i].raw) = <<word>>})
        /\ \A k \in 1..Len(lines) : k <= Cardinality(Texts) =>
              lines[k] = joinTexts(MarkerTexts(TextBlockBefore(Text(k)), Text(k)))
                            \o cleanTextFragment(Scanned[Text(k)].raw)

\* C30 as the code has it: the lines are those of the text blocks with a
\* non-empty cleaned text, in order; each starts with the markers with a
\* non-empty cleaned text that stand between the text block of the line
\* before and its own, so a marker is carried past a text block whose
\* cleaned text is empty; the markers after the last such text block are in
\* no line.
C30_MarkersOfNonEmptyTextBlocks ==
    Built =>
        /\ Len(lines) = Cardinality(Texts)
        /\ \A k \in 1..Len(lines) :
              lines[k] = joinTexts(MarkerTexts(Text(k - 1), Text(k)))
                            \o cleanTextFragment(Scanned[Text(k)].raw)
        /\ \A word \in {"(1)", "a)", "1."} :
              CountOf(word, joinTexts(lines))
                  = Cardinality({i \in Markers : /\ cleanTextFragment(Scanned[i].raw) = <<word>>
                                                  /\ i < Text(Len(lines))})
\* the span (1), A, a): the body is the line "(1) A" and a) is in no line
C30_Witness ==
    /\ pc = "built" /\ tokenIndex = 3
    /\ Scanned[1].raw = <<"(1)">> /\ Scanned[2].raw = <<"A">> /\ Scanned[3].raw = <<"a)">>
    /\ Scanned[3].kind = "pismenoOznacenie"
    /\ content = << <<"(1)", "A">> >>

\* ------------------------- claims on selectHistoryEntry, the gap between
\* ------------------------- two revisions
Started == {i \in Candidates : From(i) <= asOfDate}

\* C26 as stated: the call returns not_yet_in_force only when no candidate
\* has an in-force-from on or before the reference date
C26_NotYetInForceOnlyBeforeFirst ==
    (Selected /\ selection.status = "not_yet_in_force") => Started = {}

\* C26: the call returns not_yet_in_force exactly when no candidate covers
\* the reference date and some candidate starts after it, whether or not an
\* earlier candidate has already started and ended: a reference date in a gap
\* between two revisions' ranges gives not_yet_in_force
C26_NotYetInForceIffNoneCoversAndSomeUpcoming ==
    (Selected /\ selection.outcome = "returned") =>
        /\ (selection.status = "not_yet_in_force") <=> (Covering = {} /\ Upcoming # {})
        /\ (Started # {} /\ Covering = {} /\ Upcoming # {}) =>
              /\ selection.status = "not_yet_in_force"
              /\ selection.selected \in Upcoming
\* the reference date lies after the end of one revision and before the start
\* of the next
C26_Witness ==
    /\ Selected
    /\ \E c \in Started : To(c) # 0 /\ To(c) < asOfDate
    /\ \E f \in Upcoming : selection.selected = f
    /\ selection.status = "not_yet_in_force"
    /\ selection.firstInForceDate > asOfDate

\* ------------------------------------------- claims about the seed files
KeepsSeeds == args.keepExisting \/ args.resume
FromEarlierRun(law) == seeds[law].writer = "earlier run"
FetchingFor(law) == pc \in {"history", "version"} /\ law = CurrentLaw
ReusedEntry(law) == [lawId |-> law, href |-> "existing", status |-> "existing"]

\* C24: with --keep-existing or --resume, and always with --all-laws
\* --metadata-only, which forces keep-existing, no step of the run deletes
\* or rewrites a seed file that an earlier run left, no page is ever being
\* fetched for the law of such a file, and the step that meets the law in the
\* loop counts it as reused and ingests nothing
C24_ExistingSeedsKept ==
    /\ [](args.allLaws /\ args.metadataOnly => args.keepExisting)
    /\ [](KeepsSeeds => \A law \in Laws : FromEarlierRun(law) => ~FetchingFor(law))
    /\ [][KeepsSeeds =>
            /\ \A law \in Laws : FromEarlierRun(law) => seeds'[law] = seeds[law]
            /\ (InLoop /\ FromEarlierRun(CurrentLaw)) =>
                  /\ reusedCount' = reusedCount + 1
                  /\ versionSummary' = Append(versionSummary, ReusedEntry(CurrentLaw))
                  /\ pc' = "loop"
                  /\ UNCHANGED <<ingestedCount, failures>>]_vars
\* a finished --all-laws --metadata-only run without --resume that reused the
\* seed of one law and wrote the seed of the other
C24_Witness ==
    /\ pc = "exit"
    /\ args.allLaws /\ args.metadataOnly /\ ~args.resume
    /\ reusedCount = 1 /\ ingestedCount = 1
    /\ \E law \in Laws : FromEarlierRun(law) /\ SummaryEntries(law) # {}

\* C27: a step of the run changes the seed record a law has only by
\* successfully ingesting that law; in particular the record of a law whose
\* ingestion fails is the one it had before the run
C27_SeedReplacedOnlyByIngestion ==
    [][\A law \in Laws :
          (seeds[law].exists /\ seeds'[law] # seeds[law]) =>
              (IngestsLaw /\ law = CurrentLaw)]_vars

\* ------------------------------------------- claims about the run's report
RECURSIVE SumOver(_, _)
SumOver(laws, field) ==
    IF laws = {} THEN 0
    ELSE LET law == CHOOSE l \in laws : TRUE
         IN  seeds[law][field] + SumOver(laws \ {law}, field)
Accounted == {law \in Laws : SummaryEntries(law) # {}}

\* C28: when the run has ended, ingested count + reused count + the number of
\* recorded failures is the number of target laws; every target law has
\* either one version-summary entry and no failure, or one failure and no
\* entry; the entries are as many as the ingested and reused laws; and the
\* totals are the sums of the provisions and definitions of the seeds of the
\* laws that have an entry
C28_EveryTargetAccountedOnce ==
    pc = "exit" =>
        /\ ingestedCount + reusedCount + Len(failures) = Len(targets)
        /\ Len(versionSummary) = ingestedCount + reusedCount
        /\ \A k \in DOMAIN targets :
              Cardinality(SummaryEntries(targets[k]))
                  + Cardinality(FailureEntries(targets[k])) = 1
        /\ Cardinality({i \in DOMAIN versionSummary :
                            versionSummary[i].status = "existing"}) = reusedCount
        /\ totalProvisions = SumOver(Accounted, "provisions")
        /\ totalDefinitions = SumOver(Accounted, "definitions")
\* a finished run that reused one law's seed, with its one provision, and
\* failed on the other law
C28_Witness ==
    /\ pc = "exit"
    /\ reusedCount = 1 /\ Len(failures) = 1 /\ ingestedCount = 0
    /\ Len(targets) = 2
    /\ totalProvisions = 1 /\ totalDefinitions = 1

\* ------------------------------------------ claims on extractDefinitions
Extracted == pc = "extracted"
\* the lines that pass every test before the one on the key
CandidateLines ==
    {i \in 1..Len(definitionLines) :
        LET line == definitionLines[i]
        IN  /\ isDefinitionLike(line.provision)
            /\ line.lettered
            /\ Len(line.head \o line.rest) >= MIN_DEFINITION_LENGTH
            /\ Len(line.head) >= MIN_TERM_LENGTH
            /\ Len(line.head) <= MAX_TERM_LENGTH}
PairOf(i) ==
    <<definitionLines[i].provision.provision_ref, toLowerCase(definitionLines[i].head)>>
FirstOfItsPair ==
    SelectSeq([i \in 1..Len(definitionLines) |-> i],
              LAMBDA i : /\ i \in CandidateLines
                         /\ \A j \in CandidateLines : j < i => PairOf(j) # PairOf(i))
DefinitionOf(i) ==
    [term |-> definitionLines[i].head,
     definition |-> definitionLines[i].head \o definitionLines[i].rest,
     source_provision |-> definitionLines[i].provision.provision_ref]

\* C22: the definitions returned have no term shorter than 2 or longer than
\* 140 characters and no two of them have the same provision reference and
\* the same lowercased term; they are, in document order, the candidates that
\* are the first with their (provision reference, lowercased term)
C22_TermBoundsAndFirstWins ==
    Extracted =>
        /\ \A k \in DOMAIN out :
              Len(out[k].term) >= 2 /\ Len(out[k].term) <= 140
        /\ \A k, m \in DOMAIN out :
              (/\ out[k].source_provision = out[m].source_provision
               /\ toLowerCase(out[k].term) = toLowerCase(out[m].term)) => k = m
        /\ out = [k \in 1..Len(FirstOfItsPair) |-> DefinitionOf(FirstOfItsPair[k])]
\* two candidates of one provision whose terms differ only in case and whose
\* texts differ, and a term of the same spelling in another provision: the
\* first and the third are returned
C22_Witness ==
    /\ Extracted
    /\ Len(definitionLines) = 3
    /\ CandidateLines = {1, 2, 3}
    /\ PairOf(1) = PairOf(2) /\ PairOf(3) # PairOf(1)
    /\ definitionLines[1].head # definitionLines[2].head
    /\ definitionLines[1].rest # definitionLines[2].rest
    /\ toLowerCase(definitionLines[3].head) = toLowerCase(definitionLines[1].head)
    /\ out = <<DefinitionOf(1), DefinitionOf(3)>>

\* ---------------------------- claims on overlapping fetchWithRateLimit calls
Requested(c) == callerRequestAt[c] # -1
Apart(c, d) ==
    IF callerRequestAt[c] >= callerRequestAt[d]
    THEN callerRequestAt[c] - callerRequestAt[d]
    ELSE callerRequestAt[d] - callerRequestAt[c]

\* C25: when a call was started while another call was still waiting in the
\* rate limiter or for its response, the requests of the two calls are
\* started at least 1.2 seconds apart
C25_OverlappingCallsSpaced ==
    pc = "overlap" =>
        \A d \in Callers : \A c \in callerOverlaps[d] :
            (Requested(c) /\ Requested(d)) => Apart(c, d) >= MIN_DELAY_MS

====
